---- MODULE Spec2Model ----
(***************************************************************************)
(* clyngor.answers.Answers: the proxy that turns the solver's raw answer   *)
(* set strings into formatted answer sets.                                 *)
(*                                                                         *)
(* A raw answer set is a sequence of one-character strings.  Python values *)
(* (int, str, tuple, Atom) are records of one shape, so that any two of    *)
(* them can be compared:                                                   *)
(*     [k |-> kind, n |-> the int, s |-> the str, e |-> the elements]      *)
(***************************************************************************)
EXTENDS Integers, Sequences, FiniteSets, TLC

VARIABLES
    source,            \* the iterable handed to Answers(answers)
    _answers,          \* self._answers = iter(answers): items already taken
    _first_arg_only,
    _group_atoms,
    _as_pyasp,
    _sorted,
    _careful_parsing,
    _collapse_atoms,
    _collapse_args,
    _parse_int,
    _ignore_args,
    gens,              \* the generator objects made by __iter__
    nexts,             \* source indices delivered by __next__ calls
    ret,               \* what the last call returned or raised, and the
                       \* parser call it made
    activated,         \* history: the option properties read so far
    last_pa            \* history: which of parse_args/atoms_as_string came last

flags == <<_first_arg_only, _group_atoms, _as_pyasp, _sorted, _careful_parsing,
           _collapse_atoms, _collapse_args, _parse_int, _ignore_args>>
iteration == <<_answers, gens, nexts>>
vars == <<source, flags, iteration, ret, activated, last_pa>>

(***************************************************************************)
(* Bounds of the model.                                                    *)
(***************************************************************************)
MaxAnswers == 2     \* raw answer sets in the source of an iteration
MaxIters == 2       \* generator objects made by iter(answers)

(***************************************************************************)
(* Python values.                                                          *)
(***************************************************************************)
VInt(n) == [k |-> "int", n |-> n, s |-> <<>>, e |-> <<>>]
VStr(s) == [k |-> "str", n |-> 0, s |-> s, e |-> <<>>]
VTup(e) == [k |-> "tup", n |-> 0, s |-> <<>>, e |-> e]
\* as_pyasp.Atom(predicate, args)
Atom(pred, args) == [k |-> "Atom", n |-> 0, s |-> <<>>, e |-> <<VStr(pred), args>>]
\* the pair (pred, args) the parsers yield and _format rebuilds
Pair(pred, args) == VTup(<<VStr(pred), args>>)

(***************************************************************************)
(* Characters.                                                             *)
(***************************************************************************)
Lower == {"a","b","c","d","e","f","g","h","i","j","k","l","m",
          "n","o","p","q","r","s","t","u","v","w","x","y","z"}
Upper == {"A","B","C","D","E","F","G","H","I","J","K","L","M",
          "N","O","P","Q","R","S","T","U","V","W","X","Y","Z"}
Digit == {"0","1","2","3","4","5","6","7","8","9"}
IdentChar == Lower \cup Upper \cup Digit \cup {"_"}
\* the characters above and the punctuation of the grammar, by code point
Ascii == <<" ", "\"", "(", ")", ",", "-",
           "0","1","2","3","4","5","6","7","8","9", ":", ";",
           "A","B","C","D","E","F","G","H","I","J","K","L","M",
           "N","O","P","Q","R","S","T","U","V","W","X","Y","Z", "\\", "_",
           "a","b","c","d","e","f","g","h","i","j","k","l","m",
           "n","o","p","q","r","s","t","u","v","w","x","y","z">>
Ord(c) == CHOOSE i \in 1..Len(Ascii) : Ascii[i] = c
DigitValue(c) == Ord(c) - Ord("0")

Slice(s, i, j) == IF j < i THEN <<>> ELSE SubSeq(s, i, j)

(***************************************************************************)
(* str.isnumeric, int(), str.split(',')                                    *)
(***************************************************************************)
isnumeric(s) == Len(s) > 0 /\ \A i \in 1..Len(s) : s[i] \in Digit

RECURSIVE DecimalValue(_)
DecimalValue(s) ==
    IF s = <<>> THEN 0
    ELSE 10 * DecimalValue(Slice(s, 1, Len(s) - 1)) + DigitValue(s[Len(s)])

startswith(s, c) == Len(s) > 0 /\ s[1] = c

int(s) == IF startswith(s, "-") THEN 0 - DecimalValue(Tail(s)) ELSE DecimalValue(s)

\* first index >= i holding character c, or 0
RECURSIVE Find(_, _, _)
Find(s, c, i) ==
    IF i > Len(s) THEN 0
    ELSE IF s[i] = c THEN i
    ELSE Find(s, c, i + 1)

RECURSIVE split(_, _)
split(s, c) ==
    LET j == Find(s, c, 1)
    IN  IF j = 0 THEN <<s>>
        ELSE <<Slice(s, 1, j - 1)>> \o split(Slice(s, j + 1, Len(s)), c)

(***************************************************************************)
(* The fast parser: REG_ANSWER_SET and "the good ol' split".               *)
(***************************************************************************)
\* the first index >= i that is past a run of characters of class C
RECURSIVE RunEnd(_, _, _)
RunEnd(s, C, i) ==
    IF i <= Len(s) /\ s[i] \in C THEN RunEnd(s, C, i + 1) ELSE i

\* the first index >= i holding a lowercase letter, or 0
RECURSIVE FindLower(_, _)
FindLower(s, i) ==
    IF i > Len(s) THEN 0
    ELSE IF s[i] \in Lower THEN i
    ELSE FindLower(s, i + 1)

\* the match of ([a-z][a-zA-Z0-9_]*)(\([^)]+\))? that starts at i, where
\* s[i] is a lowercase letter: group 1, group 2 (has = FALSE for None) and
\* the index after the match
REG_ANSWER_SET(s, i) ==
    LET j == RunEnd(s, IdentChar, i + 1)
        close == IF j <= Len(s) /\ s[j] = "(" THEN Find(s, ")", j + 1) ELSE 0
        grouped == close > j + 1
    IN  [pred |-> Slice(s, i, j - 1),
         has |-> grouped,
         args |-> IF grouped THEN Slice(s, j, close) ELSE <<>>,
         end |-> IF grouped THEN close + 1 ELSE j]

\* int(arg) if self._parse_int and (arg[1:] if arg.startswith('-') else arg)
\* .isnumeric() else arg
ParseInteger(arg, parse_int) ==
    IF parse_int /\ isnumeric(IF startswith(arg, "-") THEN Tail(arg) ELSE arg)
    THEN VInt(int(arg))
    ELSE VStr(arg)

\* the else branch of _parse_answer, over the matches found from index i on
RECURSIVE good_ol_split(_, _, _, _)
good_ol_split(s, i, collapse_atoms, parse_int) ==
    LET st == FindLower(s, i)
    IN  IF st = 0 THEN <<>>
        ELSE
          LET m == REG_ANSWER_SET(s, st)
              inner == Slice(m.args, 2, Len(m.args) - 1)
              pieces == split(inner, ",")
              args == IF ~m.has THEN VTup(<<>>)
                      ELSE IF collapse_atoms THEN VStr(inner)
                      ELSE VTup([x \in 1..Len(pieces) |->
                                    ParseInteger(pieces[x], parse_int)])
          IN  <<[pred |-> m.pred, args |-> args]>>
                \o good_ol_split(s, m.end, collapse_atoms, parse_int)

(***************************************************************************)
(* The careful parser, parsing.Parser(collapse_atoms, collapse_args,       *)
(* parse_integer).parse_terms: nesting and quoted strings are tracked, an   *)
(* unbalanced string is a SyntaxError (ok = FALSE).                        *)
(***************************************************************************)
\* the index of the ")" that brings the nesting depth to 0, from index i on
RECURSIVE Closing(_, _, _, _)
Closing(s, i, depth, quoted) ==
    IF i > Len(s) THEN 0
    ELSE IF quoted THEN
        IF s[i] = "\\" THEN Closing(s, i + 2, depth, TRUE)
        ELSE Closing(s, i + 1, depth, s[i] # "\"")
    ELSE IF s[i] = "\"" THEN Closing(s, i + 1, depth, TRUE)
    ELSE IF s[i] = "(" THEN Closing(s, i + 1, depth + 1, FALSE)
    ELSE IF s[i] = ")" THEN
        (IF depth = 1 THEN i ELSE Closing(s, i + 1, depth - 1, FALSE))
    ELSE Closing(s, i + 1, depth, FALSE)

\* the index of the first "," outside parentheses and quotes, from i on, or 0
RECURSIVE TopComma(_, _, _, _)
TopComma(s, i, depth, quoted) ==
    IF i > Len(s) THEN 0
    ELSE IF quoted THEN
        IF s[i] = "\\" THEN TopComma(s, i + 2, depth, TRUE)
        ELSE TopComma(s, i + 1, depth, s[i] # "\"")
    ELSE IF s[i] = "\"" THEN TopComma(s, i + 1, depth, TRUE)
    ELSE IF s[i] = "(" THEN TopComma(s, i + 1, depth + 1, FALSE)
    ELSE IF s[i] = ")" THEN TopComma(s, i + 1, depth - 1, FALSE)
    ELSE IF s[i] = "," /\ depth = 0 THEN i
    ELSE TopComma(s, i + 1, depth, FALSE)

RECURSIVE TopSplit(_)
TopSplit(s) ==
    LET j == TopComma(s, 1, 0, FALSE)
    IN  IF j = 0 THEN <<s>>
        ELSE <<Slice(s, 1, j - 1)>> \o TopSplit(Slice(s, j + 1, Len(s)))

\* one argument: an integer, an opaque string, or (collapse flags off) a
\* nested atom parsed as any atom
RECURSIVE ParseArg(_, _, _)
ParseArg(text, collapse_args, parse_integer) ==
    LET j == IF startswith(text, "\"") THEN 1 ELSE RunEnd(text, IdentChar, 1)
        nested == /\ ~collapse_args
                  /\ Len(text) > 0 /\ text[1] \in Lower
                  /\ j < Len(text) /\ text[j] = "("
                  /\ Closing(text, j, 0, FALSE) = Len(text)
        inner == TopSplit(Slice(text, j + 1, Len(text) - 1))
    IN  IF ParseInteger(text, parse_integer).k = "int"
        THEN ParseInteger(text, parse_integer)
        ELSE IF nested
        THEN Pair(Slice(text, 1, j - 1),
                  VTup([x \in 1..Len(inner) |->
                           ParseArg(inner[x], collapse_args, parse_integer)]))
        ELSE VStr(text)

RECURSIVE parse_terms(_, _, _, _, _)
parse_terms(s, i, collapse_atoms, collapse_args, parse_integer) ==
    LET st == FindLower(s, i)
    IN  IF st = 0 THEN [ok |-> TRUE, atoms |-> <<>>]
        ELSE
          LET j == RunEnd(s, IdentChar, st + 1)
              open == j <= Len(s) /\ s[j] = "("
              close == IF open THEN Closing(s, j, 0, FALSE) ELSE 0
              inner == Slice(s, j + 1, close - 1)
              pieces == TopSplit(inner)
              args == IF ~open THEN VTup(<<>>)
                      ELSE IF collapse_atoms THEN VStr(inner)
                      ELSE VTup([x \in 1..Len(pieces) |->
                             ParseArg(pieces[x], collapse_args, parse_integer)])
              rest == parse_terms(s, IF open THEN close + 1 ELSE j,
                                  collapse_atoms, collapse_args, parse_integer)
          IN  IF open /\ close = 0 THEN [ok |-> FALSE, atoms |-> <<>>]
              ELSE [ok |-> rest.ok,
                    atoms |-> IF rest.ok
                              THEN <<[pred |-> Slice(s, st, j - 1), args |-> args]>>
                                     \o rest.atoms
                              ELSE <<>>]

(***************************************************************************)
(* Python's ordering of values: "T", "F", or "E" when < raises TypeError   *)
(* (an int against a str, either against a tuple).  Tuples compare at the  *)
(* first index where their elements differ, else by length.                *)
(***************************************************************************)
Min(a, b) == IF a < b THEN a ELSE b

\* the first index <= n where sequences a and b differ, or 0
RECURSIVE FirstDiff(_, _, _, _)
FirstDiff(a, b, i, n) ==
    IF i > n THEN 0
    ELSE IF a[i] # b[i] THEN i
    ELSE FirstDiff(a, b, i + 1, n)

StrLtAt(a, b, d) ==
    IF d = 0 THEN Len(a) < Len(b) ELSE Ord(a[d]) < Ord(b[d])

StrLt(a, b) == StrLtAt(a, b, FirstDiff(a, b, 1, Min(Len(a), Len(b))))

RECURSIVE lt(_, _)
\* two tuples that first differ at index d (0: one is a prefix of the other)
TupleLt(a, b, d) ==
    IF d = 0 THEN (IF Len(a) < Len(b) THEN "T" ELSE "F")
    ELSE lt(a[d], b[d])

lt(a, b) ==
    IF a.k = "int" /\ b.k = "int" THEN (IF a.n < b.n THEN "T" ELSE "F")
    ELSE IF a.k = "str" /\ b.k = "str" THEN (IF StrLt(a.s, b.s) THEN "T" ELSE "F")
    ELSE IF a.k \in {"tup", "Atom"} /\ b.k \in {"tup", "Atom"}
    THEN TupleLt(a.e, b.e, FirstDiff(a.e, b.e, 1, Min(Len(a.e), Len(b.e))))
    ELSE "E"

(***************************************************************************)
(* sorted(it): list.sort on a short list, that is count_run followed by    *)
(* binarysort; ok = FALSE when a comparison raised TypeError.              *)
(***************************************************************************)
Raised == [ok |-> FALSE, v |-> <<>>]
NoRun == [ok |-> FALSE, n |-> 0, descending |-> FALSE]

Reverse(l) == [i \in 1..Len(l) |-> l[Len(l) + 1 - i]]

\* the run that starts the list: it goes on at index i while l[i] < l[i-1]
\* is `descending`; c is the outcome of that comparison
RECURSIVE RunLength(_, _, _)
RunGoesOn(l, i, descending, c) ==
    IF c = "E" THEN NoRun
    ELSE IF (c = "T") = descending THEN RunLength(l, i + 1, descending)
    ELSE [ok |-> TRUE, n |-> i - 1, descending |-> descending]

RunLength(l, i, descending) ==
    IF i > Len(l) THEN [ok |-> TRUE, n |-> Len(l), descending |-> descending]
    ELSE RunGoesOn(l, i, descending, lt(l[i], l[i - 1]))

RunFrom(l, c) == IF c = "E" THEN NoRun ELSE RunLength(l, 3, c = "T")

count_run(l) == RunFrom(l, lt(l[2], l[1]))

\* where pivot goes among a[1..hi] (0-based bounds lo, hi), or -1 on
\* TypeError; c is the outcome of pivot < a[p]
RECURSIVE BinarySearch(_, _, _, _)
Bisect(a, pivot, lo, hi, p, c) ==
    IF c = "E" THEN 0 - 1
    ELSE IF c = "T" THEN BinarySearch(a, pivot, lo, p)
    ELSE BinarySearch(a, pivot, p + 1, hi)

Probe(a, pivot, lo, hi, p) == Bisect(a, pivot, lo, hi, p, lt(pivot, a[p + 1]))

BinarySearch(a, pivot, lo, hi) ==
    IF lo >= hi THEN lo
    ELSE Probe(a, pivot, lo, hi, lo + ((hi - lo) \div 2))

\* a[1..start] is sorted; the elements after it are inserted one by one
RECURSIVE binarysort(_, _)
InsertAt(a, start, pos) ==
    IF pos < 0 THEN Raised
    ELSE binarysort(Slice(a, 1, pos) \o <<a[start + 1]>> \o Slice(a, pos + 1, start)
                      \o Slice(a, start + 2, Len(a)),
                    start + 1)

binarysort(a, start) ==
    IF start >= Len(a) THEN [ok |-> TRUE, v |-> a]
    ELSE InsertAt(a, start, BinarySearch(a, a[start + 1], 0, start))

SortFromRun(it, run) ==
    IF ~run.ok THEN Raised
    ELSE binarysort(IF run.descending
                    THEN Reverse(Slice(it, 1, run.n)) \o Slice(it, run.n + 1, Len(it))
                    ELSE it,
                    run.n)

sorted(it) ==
    IF Len(it) < 2 THEN [ok |-> TRUE, v |-> it]
    ELSE SortFromRun(it, count_run(it))

(***************************************************************************)
(* What _format returns: a frozenset, a tuple, a dict, or a TypeError      *)
(* raised by sorted.                                                       *)
(***************************************************************************)
FrozenSet(S) == [t |-> "frozenset", set |-> S, seq |-> <<>>, map |-> <<>>]
Tuple(q) == [t |-> "tuple", set |-> {}, seq |-> q, map |-> <<>>]
Dict(m) == [t |-> "dict", set |-> {}, seq |-> <<>>, map |-> m]
TypeError == [t |-> "TypeError", set |-> {}, seq |-> <<>>, map |-> <<>>]

Range(q) == {q[i] : i \in 1..Len(q)}

\* the elements of a set in some order, as iterating a Python set gives them
RECURSIVE SetToSeq(_)
SetToSeq(S) ==
    IF S = {} THEN <<>>
    ELSE LET x == CHOOSE y \in S : TRUE
         IN  <<x>> \o SetToSeq(S \ {x})

\* iterating a frozenset or a tuple
Iterate(c) == IF c.t = "tuple" THEN c.seq ELSE SetToSeq(c.set)

AsTuple(r) == IF r.ok THEN Tuple(r.v) ELSE TypeError

sorted_tuple(it) == AsTuple(sorted(it))

frozenset(it) == FrozenSet(Range(it))

builder(self, it) == IF self._sorted THEN sorted_tuple(it) ELSE frozenset(it)

\* "if args": a non-empty tuple or a non-empty str
Truthy(args) == IF args.k = "str" THEN args.s # <<>> ELSE args.e # <<>>

\* args[0]: the first element of a tuple, the first character of a str
First(args) == IF args.k = "str" THEN VStr(<<args.s[1]>>) ELSE args.e[1]

\* tuple(args): a tuple as it is, a str as the tuple of its characters
tuple(args) ==
    IF args.k = "str" THEN VTup([i \in 1..Len(args.s) |-> VStr(<<args.s[i]>>)])
    ELSE VTup(args.e)

\* a dict comprehension whose values are built by builder: it raises
\* when one of them does
DictOf(built) ==
    IF \E p \in DOMAIN built : built[p].t = "TypeError" THEN TypeError
    ELSE Dict(built)

\* mapping[pred] of lines 166-170, from the atoms of the container
Mapped(self, atoms, pred) ==
    {IF self._as_pyasp THEN Atom(pred, atoms[i].e[2]) ELSE atoms[i].e[2] :
        i \in {j \in 1..Len(atoms) : atoms[j].e[1].s = pred}}

\* lines 165-171: the defaultdict(set) filled from the atoms, then
\* {pred: builder(args) for pred, args in mapping.items()}
GroupAtoms(self, atoms) ==
    DictOf([p \in {atoms[i].e[1].s : i \in 1..Len(atoms)} |->
               builder(self, SetToSeq(Mapped(self, atoms, p)))])

\* lines 164-174, on the container of (pred, args) pairs built before
Regroup(self, shaped) ==
    IF shaped.t = "TypeError" THEN TypeError
    ELSE IF self._group_atoms THEN GroupAtoms(self, Iterate(shaped))
    ELSE IF self._as_pyasp
    THEN builder(self, [i \in 1..Len(Iterate(shaped)) |->
                           Atom(Iterate(shaped)[i].e[1].s, Iterate(shaped)[i].e[2])])
    ELSE shaped

\* lines 158-163: (pred, args[0] if args else ()) or (pred, tuple(args))
Shape(self, atom) ==
    IF self._first_arg_only
    THEN Pair(atom.pred, IF Truthy(atom.args) THEN First(atom.args) ELSE VTup(<<>>))
    ELSE Pair(atom.pred, tuple(atom.args))

\* _format without the no_arg branch of lines 151-157
_format_keeps_args(self, answer_set) ==
    Regroup(self, builder(self, [i \in 1..Len(answer_set) |->
                                    Shape(self, answer_set[i])]))

_format(self, answer_set) ==
    IF self._ignore_args THEN
        IF self._group_atoms
        THEN Dict([p \in {answer_set[i].pred : i \in 1..Len(answer_set)} |->
                      FrozenSet({})])
        ELSE IF self._as_pyasp
        THEN builder(self, [i \in 1..Len(answer_set) |->
                               Atom(answer_set[i].pred, VTup(<<>>))])
        ELSE builder(self, [i \in 1..Len(answer_set) |-> VStr(answer_set[i].pred)])
    ELSE Regroup(self, builder(self, [i \in 1..Len(answer_set) |->
                                         Shape(self, answer_set[i])]))

(***************************************************************************)
(* The Answers object.                                                     *)
(***************************************************************************)
SyntaxError == [t |-> "SyntaxError", set |-> {}, seq |-> <<>>, map |-> <<>>]
NoValue == [t |-> "None", set |-> {}, seq |-> <<>>, map |-> <<>>]

\* the option attributes of self, as the methods read them
Self ==
    [_first_arg_only |-> _first_arg_only, _group_atoms |-> _group_atoms,
     _as_pyasp |-> _as_pyasp, _sorted |-> _sorted,
     _careful_parsing |-> _careful_parsing, _collapse_atoms |-> _collapse_atoms,
     _collapse_args |-> _collapse_args, _parse_int |-> _parse_int,
     _ignore_args |-> _ignore_args]

\* the atoms of one raw answer set, with the parser call that produced them
_parse_answer(self, answer_set) ==
    IF self._careful_parsing
    THEN LET r == parse_terms(answer_set, 1, self._collapse_atoms,
                              self._collapse_args, self._parse_int)
         IN  [ok |-> r.ok, atoms |-> r.atoms,
              call |-> [parser |-> "careful",
                        collapse_atoms |-> self._collapse_atoms,
                        collapse_args |-> self._collapse_args,
                        parse_integer |-> self._parse_int]]
    ELSE [ok |-> TRUE,
          atoms |-> good_ol_split(answer_set, 1, self._collapse_atoms,
                                  self._parse_int),
          call |-> [parser |-> "fast",
                    collapse_atoms |-> self._collapse_atoms,
                    collapse_args |-> FALSE,
                    parse_integer |-> self._parse_int]]

\* lines 114-115 on what _parse_answer gave: what is yielded, or the error
\* raised
FormatParsed(self, p) == IF p.ok THEN _format(self, p.atoms) ELSE SyntaxError

\* lines 113-115 for one raw answer set
Formatted(self, answer_set) == FormatParsed(self, _parse_answer(self, answer_set))

Raises(v) == v.t \in {"TypeError", "SyntaxError"}

NoCall == [parser |-> "none", collapse_atoms |-> FALSE, collapse_args |-> FALSE,
           parse_integer |-> FALSE]

\* a call by consumer `by` that returned without taking an answer set
Returned(kind, by) ==
    [kind |-> kind, by |-> by, idx |-> 0, val |-> NoValue, call |-> NoCall]

NoGen == [st |-> "none", got |-> <<>>, after |-> {}, stale |-> FALSE]

\* __init__, over a source drawn from `sources`
Construct(sources) ==
    /\ source \in sources
    /\ _answers = 0
    /\ _first_arg_only = FALSE
    /\ _group_atoms = FALSE
    /\ _as_pyasp = FALSE
    /\ _sorted = FALSE
    /\ _careful_parsing = FALSE
    /\ _collapse_atoms = FALSE
    /\ _collapse_args = TRUE
    /\ _parse_int = TRUE
    /\ _ignore_args = FALSE
    /\ gens = [g \in 1..MaxIters |-> NoGen]
    /\ nexts = <<>>
    /\ ret = Returned("Answers", 0)
    /\ activated = {}
    /\ last_pa = "none"

\* what every option property does besides setting its attributes: it
\* returns self; a generator that has yielded and is still suspended now
\* runs under attributes that changed after its first element (stale)
Activate(name) ==
    /\ ret' = Returned("self", 0)
    /\ last_pa' = IF name \in {"parse_args", "atoms_as_string"} THEN name ELSE last_pa
    /\ gens' = [g \in 1..MaxIters |->
                  IF gens[g].st = "suspended" /\ gens[g].got # <<>> /\ flags' # flags
                  THEN [gens[g] EXCEPT !.stale = TRUE]
                  ELSE gens[g]]
    /\ UNCHANGED <<source, _answers, nexts>>

first_arg_only ==
    /\ _first_arg_only' = TRUE
    /\ UNCHANGED <<_group_atoms, _as_pyasp, _sorted, _careful_parsing,
                   _collapse_atoms, _collapse_args, _parse_int, _ignore_args>>
    /\ Activate("first_arg_only")

by_predicate ==
    /\ _group_atoms' = TRUE
    /\ UNCHANGED <<_first_arg_only, _as_pyasp, _sorted, _careful_parsing,
                   _collapse_atoms, _collapse_args, _parse_int, _ignore_args>>
    /\ Activate("by_predicate")

as_pyasp ==
    /\ _as_pyasp' = TRUE
    /\ UNCHANGED <<_first_arg_only, _group_atoms, _sorted, _careful_parsing,
                   _collapse_atoms, _collapse_args, _parse_int, _ignore_args>>
    /\ Activate("as_pyasp")

sorted_ ==
    /\ _sorted' = TRUE
    /\ UNCHANGED <<_first_arg_only, _group_atoms, _as_pyasp, _careful_parsing,
                   _collapse_atoms, _collapse_args, _parse_int, _ignore_args>>
    /\ Activate("sorted")

careful_parsing ==
    /\ _careful_parsing' = TRUE
    /\ UNCHANGED <<_first_arg_only, _group_atoms, _as_pyasp, _sorted,
                   _collapse_atoms, _collapse_args, _parse_int, _ignore_args>>
    /\ Activate("careful_parsing")

\* atoms_as_string without line 71
atoms_as_string_atoms_only ==
    /\ _collapse_atoms' = TRUE
    /\ UNCHANGED <<_first_arg_only, _group_atoms, _as_pyasp, _sorted,
                   _careful_parsing, _collapse_args, _parse_int, _ignore_args>>
    /\ Activate("atoms_as_string")

atoms_as_string ==
    /\ _collapse_atoms' = TRUE
    /\ _collapse_args' = TRUE
    /\ UNCHANGED <<_first_arg_only, _group_atoms, _as_pyasp, _sorted,
                   _careful_parsing, _parse_int, _ignore_args>>
    /\ Activate("atoms_as_string")

int_not_parsed ==
    /\ _parse_int' = FALSE
    /\ UNCHANGED <<_first_arg_only, _group_atoms, _as_pyasp, _sorted,
                   _careful_parsing, _collapse_atoms, _collapse_args, _ignore_args>>
    /\ Activate("int_not_parsed")

\* parse_args without lines 93-94
parse_args_careful_only ==
    /\ _careful_parsing' = TRUE
    /\ UNCHANGED <<_first_arg_only, _group_atoms, _as_pyasp, _sorted,
                   _collapse_atoms, _collapse_args, _parse_int, _ignore_args>>
    /\ Activate("parse_args")

parse_args ==
    /\ _careful_parsing' = TRUE
    /\ _collapse_atoms' = FALSE
    /\ _collapse_args' = FALSE
    /\ UNCHANGED <<_first_arg_only, _group_atoms, _as_pyasp, _sorted,
                   _parse_int, _ignore_args>>
    /\ Activate("parse_args")

no_arg ==
    /\ _ignore_args' = TRUE
    /\ UNCHANGED <<_first_arg_only, _group_atoms, _as_pyasp, _sorted,
                   _careful_parsing, _collapse_atoms, _collapse_args, _parse_int>>
    /\ Activate("no_arg")

\* the shared iterator moves to idx and the outcome `out` of parsing and
\* formatting (through the parser call `call`) goes to consumer `by`: yielded,
\* or raised when it is an exception
Deliver(by, idx, call, out) ==
    /\ _answers' = idx
    /\ ret' = [kind |-> IF Raises(out) THEN "raise" ELSE "yield",
               by |-> by, idx |-> idx, val |-> out, call |-> call]

\* the attributes __init__ sets
Defaults ==
    [_first_arg_only |-> FALSE, _group_atoms |-> FALSE, _as_pyasp |-> FALSE,
     _sorted |-> FALSE, _careful_parsing |-> FALSE, _collapse_atoms |-> FALSE,
     _collapse_args |-> TRUE, _parse_int |-> TRUE, _ignore_args |-> FALSE]

\* a turn that takes the next answer set and one more ahead of the consumer
TurnAhead(by) ==
    /\ ret' = [kind |-> IF Raises(Formatted(Self, source[_answers + 1]))
                        THEN "raise" ELSE "yield",
               by |-> by, idx |-> _answers + 1,
               val |-> Formatted(Self, source[_answers + 1]),
               call |-> _parse_answer(Self, source[_answers + 1]).call]
    /\ _answers' = Min(_answers + 2, Len(source))

\* a turn that parses and formats with the attributes of construction time
TurnDefaults(by) ==
    Deliver(by, _answers + 1, _parse_answer(Defaults, source[_answers + 1]).call,
            Formatted(Defaults, source[_answers + 1]))

\* one turn of "for answer_set in self._answers" in the generator run for
\* consumer `by` (a generator number; 0 for the generator __next__ makes):
\* the next raw answer set is taken from the shared iterator, parsed and
\* formatted with the attributes self has now
Turn(by) ==
    Deliver(by, _answers + 1, _parse_answer(Self, source[_answers + 1]).call,
            Formatted(Self, source[_answers + 1]))

\* __iter__ looping over the source itself: each new generator starts over
__iter__restarts ==
    \E g \in 1..MaxIters :
        /\ gens[g].st = "none"
        /\ \A h \in 1..(g - 1) : gens[h].st # "none"
        /\ gens' = [gens EXCEPT ![g] =
                       [st |-> "created", got |-> <<>>,
                        after |-> {h \in 1..MaxIters : gens[h].st = "exhausted"},
                        stale |-> FALSE]]
        /\ _answers' = 0
        /\ ret' = Returned("generator", g)
        /\ UNCHANGED <<source, flags, nexts, last_pa>>

\* iter(answers): the call of __iter__ makes a generator object; its body
\* has not run yet
__iter__ ==
    \E g \in 1..MaxIters :
        /\ gens[g].st = "none"
        /\ \A h \in 1..(g - 1) : gens[h].st # "none"
        /\ gens' = [gens EXCEPT ![g] =
                       [st |-> "created", got |-> <<>>,
                        after |-> {h \in 1..MaxIters : gens[h].st = "exhausted"},
                        stale |-> FALSE]]
        /\ ret' = Returned("generator", g)
        /\ UNCHANGED <<source, flags, _answers, nexts, last_pa>>

\* next(generator g): the body of __iter__ runs up to its next yield, to an
\* error raised by the parser or by _format, or to the end of the source
resume(g) ==
    /\ gens[g].st \in {"created", "suspended"}
    /\ IF _answers < Len(source)
       THEN /\ Turn(g)
            /\ gens' = [gens EXCEPT
                          ![g].st = IF ret'.kind = "raise"
                                    THEN "failed" ELSE "suspended",
                          ![g].got = Append(@, _answers + 1)]
       ELSE /\ gens' = [gens EXCEPT ![g].st = "exhausted"]
            /\ ret' = Returned("StopIteration", g)
            /\ UNCHANGED _answers
    /\ UNCHANGED <<source, flags, nexts, last_pa>>

\* the consumer stops early: the suspended generator is closed (explicitly
\* or when it is collected) and takes nothing more
close(g) ==
    /\ gens[g].st \in {"created", "suspended"}
    /\ gens' = [gens EXCEPT ![g].st = "closed"]
    /\ ret' = Returned("None", g)
    /\ UNCHANGED <<source, flags, _answers, nexts, last_pa>>

\* __next__ over a fresh iterator of the source: always its first element
__next__restarts ==
    /\ IF Len(source) > 0
       THEN /\ ret' = [kind |-> IF Raises(Formatted(Self, source[1]))
                                THEN "raise" ELSE "yield",
                       by |-> 0, idx |-> 1, val |-> Formatted(Self, source[1]),
                       call |-> _parse_answer(Self, source[1]).call]
            /\ nexts' = IF Len(nexts) < MaxAnswers THEN Append(nexts, 1) ELSE nexts
            /\ UNCHANGED _answers
       ELSE /\ ret' = Returned("StopIteration", 0)
            /\ UNCHANGED <<_answers, nexts>>
    /\ UNCHANGED <<source, flags, gens, last_pa>>

\* next(answers) = next(iter(self)): a new generator, run for one turn
__next__ ==
    /\ IF _answers < Len(source)
       THEN /\ Turn(0)
            /\ nexts' = Append(nexts, _answers + 1)
       ELSE /\ ret' = Returned("StopIteration", 0)
            /\ UNCHANGED <<_answers, nexts>>
    /\ UNCHANGED <<source, flags, gens, last_pa>>

(***************************************************************************)
(* The raw answer sets the solver is taken to print.                       *)
(***************************************************************************)
Catalogue ==
    { <<>>,
      <<"d"," ","a">>,
      <<"r","e","l","(","a",",","c",")"," ","r","e","l","(","a",",","d",")"," ",
        "r","e","l","(","b",",","d",")"," ","r","e","l","(","b",",","e",")">>,
      <<"p","(","1",")"," ","p","(","a",")">>,
      <<"p","(","2",",","b",")"," ","p","(","-","1",",","a","b",")"," ","q">>,
      <<"p","(","f","(","a",")",",","b",")">>,
      <<"p"," ","p","(","a",")">>,
      <<"b","(","1","0",")"," ","b","(","9",")"," ","a","(","x",")">> }

\* the answer sets of one run of the solver, in the order it prints them
Stream ==
    << <<"d"," ","a">>,
       <<"p","(","1",")"," ","p","(","a",")">>,
       <<"b","(","1","0",")"," ","b","(","9",")"," ","a","(","x",")">>,
       <<"r","e","l","(","a",",","c",")"," ","r","e","l","(","a",",","d",")">> >>

\* the run may stop after any number of answer sets, up to n
Prefixes(q, n) == {SubSeq(q, 1, k) : k \in 0..Min(n, Len(q))}

\* history: the option property `name` has been read
Read(name) == activated' = activated \cup {name}

\* configuring an Answers object over one raw answer set of the catalogue,
\* then asking it for the answer
Next ==
    \/ first_arg_only /\ Read("first_arg_only")
    \/ by_predicate /\ Read("by_predicate")
    \/ as_pyasp /\ Read("as_pyasp")
    \/ sorted_ /\ Read("sorted")
    \/ careful_parsing /\ Read("careful_parsing")
    \/ atoms_as_string /\ Read("atoms_as_string")
    \/ int_not_parsed /\ Read("int_not_parsed")
    \/ parse_args /\ Read("parse_args")
    \/ no_arg /\ Read("no_arg")
    \/ __next__ /\ UNCHANGED activated

Init == Construct({<<r>> : r \in Catalogue})
Spec == Init /\ [][Next]_vars

\* iterating an Answers object over a stream of up to MaxAnswers raw answer
\* sets, options being read at any moment
NextIter ==
    \/ first_arg_only /\ UNCHANGED activated
    \/ by_predicate /\ UNCHANGED activated
    \/ as_pyasp /\ UNCHANGED activated
    \/ sorted_ /\ UNCHANGED activated
    \/ careful_parsing /\ UNCHANGED activated
    \/ atoms_as_string /\ UNCHANGED activated
    \/ int_not_parsed /\ UNCHANGED activated
    \/ parse_args /\ UNCHANGED activated
    \/ no_arg /\ UNCHANGED activated
    \/ __iter__ /\ UNCHANGED activated
    \/ \E g \in 1..MaxIters : resume(g) /\ UNCHANGED activated
    \/ \E g \in 1..MaxIters : close(g) /\ UNCHANGED activated
    \/ __next__ /\ UNCHANGED activated

InitIter == Construct(Prefixes(Stream, MaxAnswers))
SpecIter == InitIter /\ [][NextIter]_vars

(***************************************************************************)
(* Properties of one formatted answer (specification Spec).                *)
(***************************************************************************)
\* the last call took a raw answer set and delivered its outcome
Answered == ret.kind \in {"yield", "raise"}
\* the atoms of that raw answer set, as the parser selected by self gives them
Parsed == _parse_answer(Self, source[ret.idx]).atoms
Preds == {Parsed[i].pred : i \in 1..Len(Parsed)}
AllOptions ==
    {"first_arg_only", "by_predicate", "as_pyasp", "sorted", "careful_parsing",
     "atoms_as_string", "int_not_parsed", "parse_args", "no_arg"}

\* no element of the sequence is smaller than the one before it
Ascending(q) == \A i \in 1..(Len(q) - 1) : lt(q[i + 1], q[i]) = "F"
StrictlyAscending(q) == \A i \in 1..(Len(q) - 1) : lt(q[i], q[i + 1]) = "T"

\* C1: with no_arg active the formatted answer holds no argument value,
\* whatever the other eight options are: under by_predicate it maps each
\* predicate of the answer set to an empty frozenset; otherwise it is the
\* frozenset (under sorted: the ascending tuple, one entry per atom) of the
\* predicate names, each wrapped as Atom(pred, ()) under as_pyasp; and
\* first_arg_only changes nothing.
C1_NoArgIgnoresArguments ==
    (Answered /\ _ignore_args) =>
        LET names == {IF _as_pyasp THEN Atom(p, VTup(<<>>)) ELSE VStr(p) : p \in Preds}
        IN  /\ ret.kind = "yield"
            /\ IF _group_atoms
               THEN /\ ret.val.t = "dict"
                    /\ DOMAIN ret.val.map = Preds
                    /\ \A p \in Preds : ret.val.map[p] = FrozenSet({})
               ELSE IF _sorted
               THEN /\ ret.val.t = "tuple"
                    /\ Range(ret.val.seq) = names
                    /\ Len(ret.val.seq) = Len(Parsed)
                    /\ Ascending(ret.val.seq)
               ELSE ret.val = FrozenSet(names)
            /\ ret.val = Formatted([Self EXCEPT !._first_arg_only = ~@],
                                   source[ret.idx])

\* C1 witness: no_arg with every other option read too, on an answer set
\* whose atoms have arguments
C1_Witness ==
    /\ Answered
    /\ activated = AllOptions
    /\ \E i \in 1..Len(Parsed) : Truthy(Parsed[i].args)

\* what is left of an atom once its predicate is the key: the first
\* argument (() when there is none) under first_arg_only, else all of them
Residual(atom) ==
    IF _first_arg_only
    THEN (IF atom.args.e # <<>> THEN atom.args.e[1] ELSE VTup(<<>>))
    ELSE atom.args
Residuals(p) == {Residual(Parsed[i]) : i \in {j \in 1..Len(Parsed) : Parsed[j].pred = p}}

\* C2: with by_predicate active (no_arg and as_pyasp inactive) and atoms
\* parsed to (predicate, argument tuple), the formatted answer is a dict keyed
\* by exactly the predicates of the answer set, the value of p being the
\* duplicate-free collection of the residual values of p's atoms: a
\* frozenset, or under sorted a strictly ascending tuple.
C2_GroupedByPredicate ==
    (/\ Answered
     /\ _group_atoms /\ ~_ignore_args /\ ~_as_pyasp
     /\ \A i \in 1..Len(Parsed) : Parsed[i].args.k = "tup") =>
        /\ ret.val.t = "dict"
        /\ DOMAIN ret.val.map = Preds
        /\ \A p \in Preds :
              IF _sorted
              THEN /\ ret.val.map[p].t = "tuple"
                   /\ Range(ret.val.map[p].seq) = Residuals(p)
                   /\ StrictlyAscending(ret.val.map[p].seq)
              ELSE ret.val.map[p] = FrozenSet(Residuals(p))

\* the elements of a container, whatever its presentation
Elements(c) == IF c.t = "tuple" THEN Range(c.seq) ELSE c.set
SameElements(a, b) ==
    IF a.t = "dict"
    THEN /\ b.t = "dict"
         /\ DOMAIN a.map = DOMAIN b.map
         /\ \A p \in DOMAIN a.map : Elements(a.map[p]) = Elements(b.map[p])
    ELSE /\ a.t \in {"tuple", "frozenset"}
         /\ b.t \in {"tuple", "frozenset"}
         /\ Elements(a) = Elements(b)

IntOrStr(v) == v.k \in {"int", "str"}

C6_BlobKeptWhole ==
    (/\ Answered
     /\ ~_careful_parsing /\ _collapse_atoms
     /\ ~_ignore_args /\ ~_first_arg_only /\ ~_group_atoms /\ ~_as_pyasp) =>
        /\ ret.kind = "yield"
        /\ Elements(ret.val) = {Pair(Parsed[i].pred, Parsed[i].args) : i \in 1..Len(Parsed)}

(***************************************************************************)
(* Properties of the configuration (specification Spec).                   *)
(***************************************************************************)
\* C3: once parse_args has been read and atoms_as_string has not been read
\* after it, careful parsing is on and both collapse flags are off, whatever
\* was read before; an answer set parsed then goes through the careful
\* parser with both collapse flags false.
C3_ParseArgsForcesCareful ==
    last_pa = "parse_args" =>
        /\ _careful_parsing
        /\ ~_collapse_atoms
        /\ ~_collapse_args
        /\ Answered =>
              ret.call = [parser |-> "careful", collapse_atoms |-> FALSE,
                          collapse_args |-> FALSE, parse_integer |-> _parse_int]

\* C3 witness: an answer set parsed after atoms_as_string, then parse_args
C3_Witness ==
    /\ Answered
    /\ last_pa = "parse_args"
    /\ "atoms_as_string" \in activated

\* the nine attributes as a function of the set of options read and of
\* which of parse_args / atoms_as_string was read last
Configuration(read, last) ==
    [_first_arg_only |-> "first_arg_only" \in read,
     _group_atoms |-> "by_predicate" \in read,
     _as_pyasp |-> "as_pyasp" \in read,
     _sorted |-> "sorted" \in read,
     _careful_parsing |-> "careful_parsing" \in read \/ "parse_args" \in read,
     _collapse_atoms |-> last = "atoms_as_string",
     _collapse_args |-> last # "parse_args",
     _parse_int |-> "int_not_parsed" \notin read,
     _ignore_args |-> "no_arg" \in read]

\* C9: the configuration reached depends only on the set of options read
\* and on which of parse_args / atoms_as_string was read last (so reading is
\* idempotent and otherwise order-independent), and reading an option
\* returns the object itself.
C9_OrderIndependent ==
    /\ Self = Configuration(activated, last_pa)
    /\ last_pa \in (activated \cap {"parse_args", "atoms_as_string"}) \cup {"none"}
    /\ (last_pa = "none") = (activated \cap {"parse_args", "atoms_as_string"} = {})
    /\ ret.kind \in {"Answers", "self", "yield", "raise", "StopIteration"}
    /\ ret.kind = "self" => activated # {}

\* C9 witness: both overriding options read, atoms_as_string last, among
\* others
C9_Witness ==
    /\ {"parse_args", "atoms_as_string", "sorted", "careful_parsing"} \subseteq activated
    /\ last_pa = "atoms_as_string"
    /\ ret.kind = "self"

(***************************************************************************)
(* Properties of iteration (specification SpecIter).                       *)
(***************************************************************************)
Count(k) == [i \in 1..k |-> i]

\* generator g is the only consumer that has taken anything
SoleConsumer(g) ==
    /\ nexts = <<>>
    /\ \A h \in (1..MaxIters) \ {g} : gens[h].got = <<>>

\* C4: iteration is pull-based and order-preserving: for a sole consumer,
\* the k-th outcome delivered is that of the k-th raw string, the value just
\* yielded is the formatted form of the raw string at its rank, and the
\* source has given exactly as many raw strings as the consumer has
\* received outcomes (nothing is read ahead), also once the consumer has
\* stopped.
C4_PullBased ==
    \A g \in 1..MaxIters :
        SoleConsumer(g) =>
            /\ gens[g].got = Count(_answers)
            /\ (ret.kind = "yield" /\ ret.by = g) =>
                  /\ ret.idx = _answers
                  /\ ret.val = Formatted(Self, source[_answers])

\* C4 witness: the sole consumer has just received its second value
C4_Witness ==
    /\ SoleConsumer(1)
    /\ ret.kind = "yield" /\ ret.by = 1 /\ ret.idx = 2

\* how many times source index i has been delivered, to any consumer
Delivered(i) ==
    Cardinality({j \in 1..Len(nexts) : nexts[j] = i})
      + Cardinality({c \in (1..MaxIters) \X (1..Len(source)) :
                        /\ c[2] <= Len(gens[c[1]].got)
                        /\ gens[c[1]].got[c[2]] = i})

\* C8: next(answers) takes exactly one raw string, the next one of the
\* shared iterator, and returns its formatted form; successive calls return
\* successive answers and StopIteration only once the source is exhausted;
\* whatever the interleaving with iterations, each raw string taken is
\* delivered exactly once and none is skipped.
C8_NextTakesOne ==
    /\ \A i \in 1..Len(source) : Delivered(i) = IF i <= _answers THEN 1 ELSE 0
    /\ \A j \in 1..(Len(nexts) - 1) : nexts[j] < nexts[j + 1]
    /\ (Answered /\ ret.by = 0) =>
          /\ ret.idx = _answers
          /\ nexts # <<>> /\ nexts[Len(nexts)] = ret.idx
          /\ ret.val = Formatted(Self, source[ret.idx])
    /\ (ret.kind = "StopIteration" /\ ret.by = 0) => _answers = Len(source)

\* C8 witness: next() returns the second answer after an iteration took the
\* first
C8_Witness ==
    /\ ret.kind = "yield" /\ ret.by = 0 /\ ret.idx = 2
    /\ gens[1].got = <<1>>

\* C7, as claimed: an iteration started after an earlier, full iteration has
\* finished yields again the answers of the same raw strings, in order.
C7_Restartable ==
    \A g \in 1..MaxIters : \A h \in gens[g].after :
        (gens[g].st = "exhausted" /\ gens[h].got = Count(Len(source))) =>
            gens[g].got = gens[h].got

\* C7, amended: iteration is single-pass: all iterations share the one
\* iterator taken at construction, so an iteration started after an earlier
\* one has finished yields nothing, the source being exhausted for good.
C7_SinglePass ==
    \A g \in 1..MaxIters :
        gens[g].after # {} => (gens[g].got = <<>> /\ _answers = Len(source))

\* C7 witness: a second iteration, started after a first one went through
\* two answers, has finished
C7_Witness ==
    \E g \in 1..MaxIters : \E h \in gens[g].after :
        /\ gens[g].st = "exhausted"
        /\ Len(source) >= 2
        /\ gens[h].got = Count(Len(source))

\* some iteration has produced an element and is not over
MidIteration == \E g \in 1..MaxIters : gens[g].st = "suspended"
\* the attributes as the step leaves them
SelfAfter ==
    [_first_arg_only |-> _first_arg_only', _group_atoms |-> _group_atoms',
     _as_pyasp |-> _as_pyasp', _sorted |-> _sorted',
     _careful_parsing |-> _careful_parsing',
     _collapse_atoms |-> _collapse_atoms', _collapse_args |-> _collapse_args',
     _parse_int |-> _parse_int', _ignore_args |-> _ignore_args']

\* C10, as claimed: reading an option after the first element of an
\* iteration has been produced does not change how the remaining elements
\* are parsed and formatted.
C10_Frozen ==
    [][(MidIteration /\ flags' # flags) =>
          \A i \in (_answers + 1)..Len(source) :
              Formatted(SelfAfter, source[i]) = Formatted(Self, source[i])]_vars

\* C10, amended: the configuration is read per element: every element is
\* parsed and formatted with the values the options have when it is pulled,
\* so an option read in the middle of an iteration applies to the elements
\* that remain.
C10_ReadPerElement ==
    Answered =>
        /\ ret.val = Formatted(Self, source[ret.idx])
        /\ ret.call = _parse_answer(Self, source[ret.idx]).call

\* C10 witness: a generator yields a later element after an option changed
\* in the middle of its iteration
C10_Witness ==
    \E g \in 1..MaxIters :
        /\ gens[g].stale
        /\ ret.kind = "yield" /\ ret.by = g /\ ret.idx >= 2

====
